---- MODULE Spec2Model ----
(***************************************************************************)
(* Model of rewatch's package_tree.rs: make = build_package (discovery of  *)
(* the dependency packages, fork/join per dependency) followed by          *)
(* extend_with_children (collection of the source files per folder).       *)
(*                                                                         *)
(* Strings are sequences of tokens, so that the code's string "+" is \o    *)
(* and two paths are equal exactly when their token sequences are equal.   *)
(* Option<T> is a set with at most one element: None = {}, Some(x) = {x}.  *)
(* An AHashMap is a set of [key, val] records with pairwise distinct keys, *)
(* an AHashSet is a set.                                                   *)
(***************************************************************************)
EXTENDS Integers, Sequences, FiniteSets, TLC

VARIABLES
    manifests,    \* the filesystem: path of a bsconfig.json -> its parsed content
    unreadable,   \* the filesystem: directories the lister fails on
    files,        \* the filesystem: paths of the source files
    calls,        \* build_package: call id (path of dependency indices) -> frame
    pc,           \* make: "discover", "enrich", "done" (returned) or "panicked"
    build,        \* make / extend_with_children: the AHashMap<String, Package>
    cur,          \* extend_with_children: Option of the key the for loop is at
    collected,    \* extend_with_children: folders of cur whose get_source_files returned
    listed,       \* the lister's invocations so far: set of <<dir, recurse>>
    diagnostics,  \* the println! lines so far: set of [dir, dev]
    arg,          \* the arguments of the pure function under study
    ret           \* Option of its result

vars == <<manifests, unreadable, files, calls, pc, build, cur, collected,
          listed, diagnostics, arg, ret>>

(***************************************************************************)
(* Bounds                                                                   *)
(***************************************************************************)
MaxSubdirs == 2      \* longest explicit subdirectory list of a generated source spec
MaxDeps == 2         \* longest bs-dependencies list of a generated manifest
MaxCalls == 5        \* most calls of build_package a run may make
MaxUnreadable == 1   \* most directories the lister fails on
MaxSources == 2      \* longest list of source specs of a generated manifest
MaxEdges == 4        \* most dependency declarations of all manifests together

(***************************************************************************)
(* Option and containers                                                    *)
(***************************************************************************)
None == {}
Some(x) == {x}
Unwrap(o) == CHOOSE x \in o : TRUE

Keys(map) == {e.key : e \in map}
Get(map, k) == (CHOOSE e \in map : e.key = k).val

\* AHashMap::insert: the value under k is replaced
Insert(map, k, v) == {e \in map : e.key # k} \cup {[key |-> k, val |-> v]}

\* AHashMap::extend: insert every entry of other, in turn
Extend(map, other) == {e \in map : \A o \in other : o.key # e.key} \cup other

RECURSIVE ExtendAll(_, _)
\* .into_iter().for_each(|m| map.extend(m)) over a Vec of maps
ExtendAll(map, ms) ==
    IF ms = <<>> THEN map ELSE ExtendAll(Extend(map, Head(ms)), Tail(ms))

SeqsUpTo(S, n) == UNION {[1..k -> S] : k \in 0..n}
Range(s) == {s[i] : i \in DOMAIN s}
IsPrefix(p, s) == Len(p) <= Len(s) /\ SubSeq(s, 1, Len(p)) = p

(***************************************************************************)
(* bsconfig: the manifest's types                                           *)
(***************************************************************************)
Shorthand(dir) == [variant |-> "Shorthand", dir |-> dir]
PackageSource(dir, subdirs, type_) == [dir |-> dir, subdirs |-> subdirs, type_ |-> type_]
Qualified(ps) == [variant |-> "Qualified", ps |-> ps]
SubdirsRecurse(b) == [variant |-> "Recurse", recurse |-> b]
SubdirsQualified(list) == [variant |-> "Qualified", list |-> list]
Single(source) == [variant |-> "Single", source |-> source]
Multiple(sources) == [variant |-> "Multiple", sources |-> sources]
NamespaceBool(b) == [variant |-> "Bool", b |-> b]
NamespaceString(str) == [variant |-> "String", str |-> str]
Dev == Some("dev")

\* bsconfig::to_qualified_without_children: the spec with its explicit
\* children cleared; the full-recursion flag is kept
to_qualified_without_children(source) ==
    IF source.variant = "Shorthand"
    THEN PackageSource(source.dir, None, None)
    ELSE IF source.ps.subdirs # None /\ Unwrap(source.ps.subdirs).variant = "Recurse"
         THEN PackageSource(source.ps.dir, source.ps.subdirs, source.ps.type_)
         ELSE PackageSource(source.ps.dir, None, source.ps.type_)

(***************************************************************************)
(* get_source_dirs                                                          *)
(***************************************************************************)
Slash == <<"/">>

\* the match of get_source_dirs: (package_root, subdirs, full_recursive)
SourceParts(source) ==
    IF source.variant = "Shorthand" THEN <<source.dir, None, FALSE>>
    ELSE IF source.ps.subdirs = None THEN <<source.ps.dir, None, FALSE>>
    ELSE IF Unwrap(source.ps.subdirs).variant = "Recurse"
         THEN <<source.ps.dir, None, Unwrap(source.ps.subdirs).recurse>>
         ELSE <<source.ps.dir, Some(Unwrap(source.ps.subdirs).list), FALSE>>

\* full_path = project_root + "/" + package_root
FullPath(project_root, source) == project_root \o Slash \o SourceParts(source)[1]

\* subdirs.unwrap_or(vec![])
SubdirList(source) ==
    IF SourceParts(source)[2] = None THEN <<>> ELSE Unwrap(SourceParts(source)[2])

\* a mutant of OwnFolder: the entry keeps the base directory
OwnFolderAtBase(project_root, source) ==
    <<project_root, to_qualified_without_children(source)>>

\* the entry get_source_dirs inserts for the spec itself
OwnFolder(project_root, source) ==
    <<FullPath(project_root, source), to_qualified_without_children(source)>>

\* a mutant of get_source_dirs: the children are inserted, not resolved
get_source_dirs_one_level(project_root, source) ==
    LET full_path == FullPath(project_root, source)
        subdirs == SubdirList(source)
    IN  IF ~SourceParts(source)[3]
        THEN {OwnFolder(project_root, source)}
             \cup {OwnFolder(full_path, subdirs[i]) : i \in DOMAIN subdirs}
        ELSE {OwnFolder(project_root, source)}

RECURSIVE get_source_dirs(_, _)
\* the set of (directory, normalized spec) a source spec resolves to
get_source_dirs(project_root, source) ==
    LET full_path == FullPath(project_root, source)
        subdirs == SubdirList(source)
    IN  IF ~SourceParts(source)[3]
        THEN {OwnFolder(project_root, source)}
             \cup UNION {get_source_dirs(full_path, subdirs[i]) : i \in DOMAIN subdirs}
        ELSE {OwnFolder(project_root, source)}

(***************************************************************************)
(* Naming rules                                                             *)
(***************************************************************************)
LowerLetters == {"a", "b", "c", "d", "p", "s"}
UpperLetters == {"A", "B", "C", "D", "P", "S"}
Delimiters == {"_", "-", " "}
UpperOf(c) ==
    CASE c = "a" -> "A" [] c = "b" -> "B" [] c = "c" -> "C" [] c = "d" -> "D"
      [] c = "p" -> "P" [] c = "s" -> "S" [] OTHER -> c
LowerOf(c) ==
    CASE c = "A" -> "a" [] c = "B" -> "b" [] c = "C" -> "c" [] c = "D" -> "d"
      [] c = "P" -> "p" [] c = "S" -> "s" [] OTHER -> c

RECURSIVE Replace(_, _, _)
\* str.replace(from, to) for a one-character pattern
Replace(s, from, to) ==
    IF s = <<>> THEN <<>>
    ELSE (IF Head(s) = from THEN to ELSE <<Head(s)>>) \o Replace(Tail(s), from, to)

RECURSIVE SplitWords(_, _)
\* convert_case: the words of s, cut at the delimiters, at a lower-to-upper
\* change and before the last capital of an acronym; w is the word so far
SplitWords(s, w) ==
    IF s = <<>> THEN (IF w = <<>> THEN <<>> ELSE <<w>>)
    ELSE LET c == Head(s)
             cut == /\ w # <<>>
                    /\ \/ w[Len(w)] \in LowerLetters /\ c \in UpperLetters
                       \/ /\ w[Len(w)] \in UpperLetters /\ c \in UpperLetters
                          /\ Len(s) > 1 /\ s[2] \in LowerLetters
         IN  IF c \in Delimiters
             THEN (IF w = <<>> THEN <<>> ELSE <<w>>) \o SplitWords(Tail(s), <<>>)
             ELSE IF cut THEN <<w>> \o SplitWords(Tail(s), <<c>>)
             ELSE SplitWords(Tail(s), Append(w, c))

Capitalize(w) ==
    IF w = <<>> THEN <<>>
    ELSE <<UpperOf(w[1])>> \o [i \in 1..(Len(w) - 1) |-> LowerOf(w[i + 1])]

RECURSIVE Concat(_)
Concat(ws) == IF ws = <<>> THEN <<>> ELSE Head(ws) \o Concat(Tail(ws))

\* .to_case(Case::Pascal)
ToPascal(s) ==
    LET ws == SplitWords(s, <<>>)
    IN  Concat([i \in DOMAIN ws |-> Capitalize(ws[i])])

\* a derivation that leaves the "/" of a scoped name in place
namespace_keeping_slash(package_name) ==
    ToPascal(Replace(package_name, "@", <<>>))

namespace_from_package_name(package_name) ==
    ToPascal(Replace(Replace(package_name, "@", <<>>), "/", <<"_">>))

RECURSIVE Basename(_)
\* the part of a path after its last "/"
Basename(path) ==
    IF \A i \in DOMAIN path : path[i] # "/" THEN path
    ELSE Basename(Tail(path))

\* helpers::file_path_to_module_name: the capitalised file stem, suffixed
\* with the namespace when there is one
file_path_to_module_name(path, namespace) ==
    LET base == Basename(path)
        stem == IF Len(base) > 1 THEN SubSeq(base, 1, Len(base) - 1) ELSE base
        name == <<UpperOf(stem[1])>> \o Tail(stem)
    IN  IF namespace = None THEN name ELSE name \o <<"-">> \o Unwrap(namespace)

(***************************************************************************)
(* The filesystem                                                           *)
(***************************************************************************)
Root == <<"root">>
NodeModules == <<"/", "node_modules", "/">>
ManifestFile(package_dir) == package_dir \o <<"/", "bsconfig.json">>
Metadata(path) == [of |-> path]

\* bsconfig::read: the parsed manifest, or a panic when the file is missing
\* or malformed
bsconfig_read(path) ==
    IF path \in DOMAIN manifests
    THEN [ok |-> TRUE, bsconfig |-> manifests[path]]
    ELSE [ok |-> FALSE]

\* the directories strictly between dir and the file f below it
DirsBetween(dir, f) ==
    {SubSeq(f, 1, j - 1) : j \in {i \in (Len(dir) + 2)..Len(f) : f[i] = "/"}}

ListFiles(dir, recurse) ==
    {f \in files :
        /\ IsPrefix(dir \o Slash, f)
        /\ Len(f) > Len(dir) + 1
        /\ IF recurse THEN DirsBetween(dir, f) \cap unreadable = {}
                      ELSE DirsBetween(dir, f) = {}}

\* structure_hashmap::read_folders: the files of dir (and below it when
\* recurse) with their metadata, or an error when dir cannot be listed
read_folders(dir, recurse) ==
    IF dir \in unreadable THEN [ok |-> FALSE]
    ELSE [ok |-> TRUE,
          files |-> {[key |-> f, val |-> Metadata(f)] : f \in ListFiles(dir, recurse)}]

(***************************************************************************)
(* build_package                                                            *)
(***************************************************************************)
\* a mutant of PackageDir: a dependency is looked up below the directory of
\* the package that declares it (kept in parent)
PackageDirNested(is_root, project_root, package_name, parent) ==
    IF is_root THEN project_root
    ELSE Unwrap(parent) \o NodeModules \o package_name

PackageDir(is_root, project_root, package_name, parent) ==
    IF is_root THEN project_root
    ELSE project_root \o NodeModules \o package_name

\* the match on bsconfig.sources
SourceFolders(bsconfig, package_dir) ==
    IF bsconfig.sources.variant = "Single"
    THEN get_source_dirs(package_dir, bsconfig.sources.source)
    ELSE UNION {get_source_dirs(package_dir, bsconfig.sources.sources[i]) :
                    i \in DOMAIN bsconfig.sources.sources}

\* a match that has no arm for the string "true"
NamespaceOfVerbatim(bsconfig) ==
    IF bsconfig.namespace = None THEN None
    ELSE LET n == Unwrap(bsconfig.namespace)
         IN  IF n.variant = "Bool"
             THEN (IF n.b THEN Some(namespace_from_package_name(bsconfig.name)) ELSE None)
             ELSE Some(n.str)

\* the match on bsconfig.namespace
NamespaceOf(bsconfig) ==
    IF bsconfig.namespace = None THEN None
    ELSE LET n == Unwrap(bsconfig.namespace)
         IN  IF n.variant = "Bool"
             THEN (IF n.b THEN Some(namespace_from_package_name(bsconfig.name)) ELSE None)
             ELSE IF n.str = <<"true">>
                  THEN Some(namespace_from_package_name(bsconfig.name))
                  ELSE Some(n.str)

\* the Package build_package inserts under package_dir
NewPackage(bsconfig, package_dir, parent) ==
    [name |-> bsconfig.name,
     parent |-> parent,
     bsconfig |-> bsconfig,
     source_folders |-> SourceFolders(bsconfig, package_dir),
     source_files |-> None,
     namespace |-> NamespaceOf(bsconfig),
     modules |-> None]

\* bsconfig.bs_dependencies.to_owned().unwrap_or(vec![])
Dependencies(bsconfig) ==
    IF bsconfig.bs_dependencies = None THEN <<>> ELSE Unwrap(bsconfig.bs_dependencies)

\* the arguments of one call of build_package and what it has done so far
Frame(is_root, project_root, package_name, parent) ==
    [is_root |-> is_root, project_root |-> project_root,
     package_name |-> package_name, parent |-> parent,
     status |-> "pending", package_dir |-> None, deps |-> <<>>, children |-> {}]

\* a mutant of ChildFrame: the directory of the declaring package is handed
\* on as the project root
ChildFrameBelowDeclarer(f, package_dir, dep) ==
    Frame(FALSE, package_dir, dep, Some(package_dir))

\* build_package(false, &project_root, &dep, Some(package_dir.to_string()))
ChildFrame(f, package_dir, dep) ==
    Frame(FALSE, f.project_root, dep, Some(package_dir))

ChildIds(id) == {id \o <<i>> : i \in DOMAIN calls[id].deps}
ParentId(id) == SubSeq(id, 1, Len(id) - 1)

\* the first half of build_package(id): the manifest is read (a panic when
\* it cannot be), the package is inserted into children, and one task per
\* dependency is handed to the thread pool
Start(id) ==
    /\ pc = "discover"
    /\ id \in DOMAIN calls
    /\ calls[id].status = "pending"
    /\ id # <<>> => calls[ParentId(id)].status = "running"
    /\ LET f == calls[id]
           package_dir == PackageDir(f.is_root, f.project_root, f.package_name, f.parent)
           r == bsconfig_read(ManifestFile(package_dir))
       IN  IF ~r.ok
           THEN calls' = [calls EXCEPT ![id].status = "panicked",
                                       ![id].package_dir = Some(package_dir)]
           ELSE IF Cardinality(DOMAIN calls) + Len(Dependencies(r.bsconfig)) > MaxCalls
           THEN FALSE
           ELSE LET deps == Dependencies(r.bsconfig)
                    started == [f EXCEPT
                                  !.status = "running",
                                  !.package_dir = Some(package_dir),
                                  !.deps = deps,
                                  !.children = Insert({}, package_dir,
                                                  NewPackage(r.bsconfig, package_dir, f.parent))]
                    spawned == [c \in {id \o <<i>> : i \in DOMAIN deps} |->
                                  ChildFrame(f, package_dir, deps[c[Len(c)]])]
                IN  calls' = [c \in DOMAIN calls \cup DOMAIN spawned |->
                                IF c = id THEN started
                                ELSE IF c \in DOMAIN spawned THEN spawned[c]
                                ELSE calls[c]]
    /\ UNCHANGED <<manifests, unreadable, files, pc, build, cur, collected,
                   listed, diagnostics, arg, ret>>

\* a mutant of JoinOutcome: a task that panicked is left out of the merge
JoinOutcomeSwallow(id) ==
    IF \A c \in ChildIds(id) : calls[c].status \in {"returned", "panicked"}
    THEN "return" ELSE "wait"

\* a mutant of JoinOutcome: the merge does not wait for every task
JoinOutcomeEarly(id) ==
    IF ChildIds(id) = {} \/ \E c \in ChildIds(id) : calls[c].status = "returned"
    THEN "return" ELSE "wait"

\* .par_iter().map(..).collect::<Vec<_>>(): it returns once every
\* dependency's task has returned; the panic of a task is resumed in the
\* caller once no task is running (a task not yet started is dropped)
JoinOutcome(id) ==
    IF \A c \in ChildIds(id) : calls[c].status = "returned" THEN "return"
    ELSE IF /\ \E c \in ChildIds(id) : calls[c].status = "panicked"
            /\ \A c \in ChildIds(id) : calls[c].status # "running"
         THEN "panic"
         ELSE "wait"

\* a mutant of MergeChildren: packages are deduplicated by their name
MergeChildrenByName(children, maps) ==
    LET merged[k \in 0..Len(maps)] ==
            IF k = 0 THEN children
            ELSE {e \in merged[k - 1] : \A o \in maps[k] : o.val.name # e.val.name}
                 \cup maps[k]
    IN  merged[Len(maps)]

\* a mutant of MergeChildren: each merge replaces what the maps merged
\* before it had brought
MergeChildrenReplacing(children, maps) ==
    IF maps = <<>> THEN children ELSE Extend(children, maps[Len(maps)])

\* .into_iter().for_each(|child| children.extend(child))
MergeChildren(children, maps) == ExtendAll(children, maps)

\* the maps of the dependencies' tasks that returned, in declaration order
ChildMaps(id) ==
    LET done == {i \in DOMAIN calls[id].deps : calls[id \o <<i>>].status = "returned"}
        ith[k \in 0..Len(calls[id].deps)] ==
            IF k = 0 THEN <<>>
            ELSE IF k \in done THEN Append(ith[k - 1], calls[id \o <<k>>].children)
            ELSE ith[k - 1]
    IN  ith[Len(calls[id].deps)]

\* the second half of build_package(id): the dependencies' maps are merged
\* into children in declaration order and children is returned
Join(id) ==
    /\ pc = "discover"
    /\ id \in DOMAIN calls
    /\ calls[id].status = "running"
    /\ JoinOutcome(id) = "return"
    /\ calls' = [calls EXCEPT
                   ![id].status = "returned",
                   ![id].children = MergeChildren(calls[id].children, ChildMaps(id))]
    /\ UNCHANGED <<manifests, unreadable, files, pc, build, cur, collected,
                   listed, diagnostics, arg, ret>>

\* build_package(id) unwinds with the panic of one of its tasks
JoinPanic(id) ==
    /\ pc = "discover"
    /\ id \in DOMAIN calls
    /\ calls[id].status = "running"
    /\ JoinOutcome(id) = "panic"
    /\ calls' = [calls EXCEPT ![id].status = "panicked"]
    /\ UNCHANGED <<manifests, unreadable, files, pc, build, cur, collected,
                   listed, diagnostics, arg, ret>>

(***************************************************************************)
(* get_source_files                                                         *)
(***************************************************************************)
\* a mutant of RecurseOf: every folder is listed with its nested directories
RecurseAlways(source) == TRUE

\* the match of get_source_files: the recurse flag handed to the lister
RecurseOf(source) ==
    IF source.subdirs # None /\ Unwrap(source.subdirs).variant = "Recurse"
    THEN Unwrap(source.subdirs).recurse
    ELSE FALSE

\* a mutant of get_source_files: development-only folders are read too
get_source_files_reading_dev(dir, source) ==
    LET r == read_folders(dir, RecurseOf(source))
    IN  IF r.ok
        THEN [map |-> Extend({}, r.files), listed |-> {<<dir, RecurseOf(source)>>},
              diagnostics |-> {}]
        ELSE [map |-> {}, listed |-> {<<dir, RecurseOf(source)>>},
              diagnostics |-> {[dir |-> dir, dev |-> source.type_ = Dev]}]

\* a mutant of get_source_files: a failed listing is passed over in silence
get_source_files_silent(dir, source) ==
    LET r == read_folders(dir, RecurseOf(source))
    IN  IF source.type_ # Dev /\ r.ok
        THEN [map |-> Extend({}, r.files), listed |-> {<<dir, RecurseOf(source)>>},
              diagnostics |-> {}]
        ELSE [map |-> {}, listed |-> IF source.type_ # Dev
                                      THEN {<<dir, RecurseOf(source)>>} ELSE {},
              diagnostics |-> {}]

\* get_source_files: the returned map, with the lister's invocations and the
\* lines printed on the way
get_source_files(dir, source) ==
    LET recurse == RecurseOf(source)
        type_ == source.type_
    IN  IF type_ # Dev
        THEN LET r == read_folders(dir, recurse)
             IN  IF r.ok
                 THEN [map |-> Extend({}, r.files), listed |-> {<<dir, recurse>>},
                       diagnostics |-> {}]
                 ELSE IF type_ = Dev
                 THEN [map |-> {}, listed |-> {<<dir, recurse>>},
                       diagnostics |-> {[dir |-> dir, dev |-> TRUE]}]
                 ELSE [map |-> {}, listed |-> {<<dir, recurse>>},
                       diagnostics |-> {[dir |-> dir, dev |-> FALSE]}]
        ELSE [map |-> {}, listed |-> {}, diagnostics |-> {}]

(***************************************************************************)
(* make and extend_with_children                                            *)
(***************************************************************************)
\* make: map.extend(build_package(true, folder, "", None))
MakeExtend ==
    /\ pc = "discover"
    /\ calls[<<>>].status = "returned"
    /\ build' = Extend({}, calls[<<>>].children)
    /\ pc' = "enrich"
    /\ UNCHANGED <<manifests, unreadable, files, calls, cur, collected,
                   listed, diagnostics, arg, ret>>

\* make unwinds with the panic of build_package: no map is returned
MakePanic ==
    /\ pc = "discover"
    /\ calls[<<>>].status = "panicked"
    /\ pc' = "panicked"
    /\ UNCHANGED <<manifests, unreadable, files, calls, build, cur, collected,
                   listed, diagnostics, arg, ret>>

Visited(package) == package.source_files # None \/ package.modules # None

\* the for loop of extend_with_children reaches the entry under key
BeginPackage(key) ==
    /\ pc = "enrich"
    /\ cur = None
    /\ key \in Keys(build)
    /\ ~Visited(Get(build, key))
    /\ cur' = Some(key)
    /\ collected' = {}
    /\ UNCHANGED <<manifests, unreadable, files, calls, pc, build,
                   listed, diagnostics, arg, ret>>

\* one task of source_folders.par_iter().map(get_source_files)
GetSourceFiles(folder) ==
    /\ pc = "enrich"
    /\ cur # None
    /\ folder \in Get(build, Unwrap(cur)).source_folders
    /\ \A c \in collected : c.folder # folder
    /\ LET r == get_source_files(folder[1], folder[2])
       IN  /\ collected' = collected \cup {[folder |-> folder, map |-> r.map]}
           /\ listed' = listed \cup r.listed
           /\ diagnostics' = diagnostics \cup r.diagnostics
    /\ UNCHANGED <<manifests, unreadable, files, calls, pc, build, cur, arg, ret>>

\* the orders in which the collected Vec can hold the folders' maps (the
\* iteration order of the AHashSet)
CollectOrders ==
    {o \in [1..Cardinality(collected) -> collected] : Range(o) = collected}

\* a mutant of MergeFolders: only the map of the last folder is kept
MergeLastFolder(order) ==
    IF order = <<>> THEN {} ELSE order[Len(order)].map

\* .into_iter().for_each(|source| map.extend(source))
MergeFolders(order) == ExtendAll({}, [i \in DOMAIN order |-> order[i].map])

\* a mutant of Modules: the namespace is not inserted
ModulesOfFilesOnly(map, namespace) ==
    {file_path_to_module_name(k, namespace) : k \in Keys(map)}

\* the module set of a package: one name per file, and the namespace
Modules(map, namespace) ==
    {file_path_to_module_name(k, namespace) : k \in Keys(map)}
    \cup (IF namespace # None THEN {Unwrap(namespace)} ELSE {})

\* a mutant of Enriched: source_files is left unset
EnrichedModulesOnly(value, map) ==
    [value EXCEPT !.modules = Some(Modules(map, value.namespace))]

\* a mutant of Enriched: the entry is rebuilt without its parent
EnrichedWithoutParent(value, map) ==
    [value EXCEPT !.modules = Some(Modules(map, value.namespace)),
                  !.source_files = Some(map),
                  !.parent = None]

\* value.modules = Some(modules); value.source_files = Some(map)
Enriched(value, map) ==
    [value EXCEPT !.modules = Some(Modules(map, value.namespace)),
                  !.source_files = Some(map)]

\* the rest of the loop body, once every task of the package has returned
FinishPackage ==
    /\ pc = "enrich"
    /\ cur # None
    /\ {c.folder : c \in collected} = Get(build, Unwrap(cur)).source_folders
    /\ \E order \in CollectOrders :
          build' = {IF e.key = Unwrap(cur)
                    THEN [key |-> e.key, val |-> Enriched(e.val, MergeFolders(order))]
                    ELSE e : e \in build}
    /\ cur' = None
    /\ collected' = {}
    /\ UNCHANGED <<manifests, unreadable, files, calls, pc,
                   listed, diagnostics, arg, ret>>

\* a mutant of Return: the loop is left before it has visited every entry
ReturnEarly ==
    /\ pc = "enrich"
    /\ cur = None
    /\ pc' = "done"
    /\ UNCHANGED <<manifests, unreadable, files, calls, build, cur, collected,
                   listed, diagnostics, arg, ret>>

\* extend_with_children returns build, and make returns it
Return ==
    /\ pc = "enrich"
    /\ cur = None
    /\ \A e \in build : Visited(e.val)
    /\ pc' = "done"
    /\ UNCHANGED <<manifests, unreadable, files, calls, build, cur, collected,
                   listed, diagnostics, arg, ret>>

(***************************************************************************)
(* The inputs                                                               *)
(***************************************************************************)
DepNames == {<<"b">>, <<"c">>, <<"d">>}
PkgDirs == {Root} \cup {Root \o NodeModules \o n : n \in DepNames}
Src == <<"src">>
Sub == <<"sub">>
SrcSub == <<"src", "/", "sub">>

Manifest(name, namespace, sources, deps) ==
    [name |-> name, namespace |-> namespace, sources |-> sources,
     bs_dependencies |-> deps]

\* the declared name of the package installed at dir
DirName(dir) == IF dir = Root THEN <<"a">> ELSE <<dir[Len(dir)]>>

DepLists == SeqsUpTo(DepNames, MaxDeps)
DirOf(n) == Root \o NodeModules \o n

RECURSIVE ReachFrom(_, _)
\* the dependency names a dependency function g reaches from the names in seen
ReachFrom(g, seen) ==
    LET next == seen \cup UNION {Range(g[n]) : n \in seen}
    IN  IF next = seen THEN seen ELSE ReachFrom(g, next)

\* the position of the first occurrence of x in s, Len(s) + 1 when there is none
First(s, x) ==
    IF \E i \in DOMAIN s : s[i] = x
    THEN CHOOSE i \in DOMAIN s : s[i] = x /\ \A j \in 1..(i - 1) : s[j] # x
    ELSE Len(s) + 1

\* the dependency lists of the root (r) and of the dependencies (g): at most
\* MaxEdges declarations in all, none in a package the root does not reach,
\* and, the names being interchangeable, b declared before c before d
DepGraphs ==
    {<<r, g>> \in DepLists \X [DepNames -> DepLists] :
        LET all == r \o g[<<"b">>] \o g[<<"c">>] \o g[<<"d">>]
        IN  /\ Len(all) <= MaxEdges
            /\ \A n \in DepNames \ ReachFrom(g, Range(r)) : g[n] = <<>>
            /\ First(all, <<"b">>) <= First(all, <<"c">>)
            /\ First(all, <<"c">>) <= First(all, <<"d">>)}

\* the directories of the packages the root reaches
Reached(rg) == {Root} \cup {DirOf(n) : n \in ReachFrom(rg[2], Range(rg[1]))}

DefaultSources == Single(Shorthand(Src))

AllFiles ==
    UNION {{d \o Slash \o Src \o Slash \o <<"a", ".res">>,
            d \o Slash \o Src \o Slash \o <<"b", ".res">>,
            d \o Slash \o Src \o Slash \o Sub \o Slash \o <<"c", ".res">>} : d \in PkgDirs}

Idle ==
    /\ arg = <<>>
    /\ ret = None

\* the worlds that vary the dependency graph: which manifest is missing and
\* whether the dependencies declare one and the same name
InitGraph ==
    \E rg \in DepGraphs, same \in BOOLEAN :
    \E missing \in {None} \cup {Some(d) : d \in IF same THEN {} ELSE Reached(rg)} :
        /\ manifests =
              [f \in {ManifestFile(d) : d \in PkgDirs \ missing} |->
                 LET d == SubSeq(f, 1, Len(f) - 2)
                 IN  Manifest(IF same /\ d # Root THEN <<"p">> ELSE DirName(d),
                              None, DefaultSources,
                              IF d = Root THEN Some(rg[1])
                              ELSE IF rg[2][DirName(d)] = <<>> THEN None
                              ELSE Some(rg[2][DirName(d)]))]
        /\ unreadable = {}
        /\ files = AllFiles

\* the source specs of the generated manifests
SrcLeaves ==
    UNION {{Shorthand(d),
            Qualified(PackageSource(d, None, Dev)),
            Qualified(PackageSource(d, Some(SubdirsRecurse(TRUE)), None)),
            Qualified(PackageSource(d, Some(SubdirsRecurse(FALSE)), None)),
            Qualified(PackageSource(d, Some(SubdirsRecurse(TRUE)), Dev))} : d \in {Src, SrcSub}}
SrcKids ==
    {Shorthand(Sub),
     Qualified(PackageSource(Sub, None, Dev)),
     Qualified(PackageSource(Sub, Some(SubdirsRecurse(TRUE)), None))}
SrcWithKids ==
    {Qualified(PackageSource(Src, Some(SubdirsQualified(l)), t)) :
        l \in SeqsUpTo(SrcKids, MaxSubdirs), t \in {None, Dev}}
SrcSeveral ==
    {Shorthand(Src),
     Shorthand(SrcSub),
     Qualified(PackageSource(Src, None, Dev)),
     Qualified(PackageSource(SrcSub, None, Dev)),
     Qualified(PackageSource(Src, Some(SubdirsRecurse(TRUE)), None))}
SourceChoices ==
    {Single(s) : s \in SrcLeaves \cup SrcWithKids}
    \cup {Multiple(l) : l \in SeqsUpTo(SrcSeveral, MaxSources)}

NamespaceChoices == {None, Some(NamespaceBool(TRUE))}

SourceDirsOf(d) == {d \o Slash \o Src, d \o Slash \o SrcSub}

\* the worlds that vary the sources: the root alone or the root with one
\* dependency, every package with the same namespace setting and source
\* specs, and some source directories that cannot be listed
InitSources ==
    \E dep \in BOOLEAN, sources \in SourceChoices, namespace \in NamespaceChoices :
    \E bad \in SUBSET (SourceDirsOf(Root)
                       \cup IF dep THEN SourceDirsOf(DirOf(<<"b">>)) ELSE {}) :
        /\ Cardinality(bad) <= MaxUnreadable
        /\ manifests =
              [f \in {ManifestFile(d) : d \in {Root} \cup IF dep THEN {DirOf(<<"b">>)} ELSE {}} |->
                 LET d == SubSeq(f, 1, Len(f) - 2)
                 IN  Manifest(DirName(d), namespace, sources,
                              IF d = Root /\ dep THEN Some(<<(<<"b">>)>>) ELSE None)]
        /\ unreadable = bad
        /\ files = AllFiles

Init ==
    /\ InitGraph \/ InitSources
    /\ calls = [id \in {<<>>} |-> Frame(TRUE, Root, <<>>, None)]
    /\ pc = "discover"
    /\ build = {}
    /\ cur = None
    /\ collected = {}
    /\ listed = {}
    /\ diagnostics = {}
    /\ Idle

CallIds == DOMAIN calls
Folders == UNION {e.val.source_folders : e \in build}

Next ==
    \/ \E id \in CallIds : Start(id)
    \/ \E id \in CallIds : Join(id)
    \/ \E id \in CallIds : JoinPanic(id)
    \/ MakeExtend
    \/ MakePanic
    \/ \E key \in PkgDirs : BeginPackage(key)
    \/ \E folder \in Folders : GetSourceFiles(folder)
    \/ FinishPackage
    \/ Return

Spec == Init /\ [][Next]_vars

(***************************************************************************)
(* get_source_dirs on its own: every source spec of a bounded shape         *)
(***************************************************************************)
DirTypes == {None, Dev}
DirLeaves ==
    {Shorthand(d) : d \in {Src, Sub}}
    \cup {Qualified(PackageSource(d, sd, t)) :
            d \in {Src, Sub},
            sd \in {None, Some(SubdirsRecurse(TRUE)), Some(SubdirsRecurse(FALSE)),
                    Some(SubdirsQualified(<<>>))},
            t \in DirTypes}
DirLevel1 ==
    {Qualified(PackageSource(d, Some(SubdirsQualified(l)), t)) :
        d \in {Src, Sub}, l \in SeqsUpTo(DirLeaves, MaxSubdirs) \ {<<>>}, t \in DirTypes}
DirLevel1Core ==
    {Qualified(PackageSource(d, Some(SubdirsQualified(<<k>>)), None)) :
        d \in {Src, Sub}, k \in {Shorthand(Sub), Qualified(PackageSource(Src, None, Dev))}}
DirLevel2 ==
    {Qualified(PackageSource(Src, Some(SubdirsQualified(l)), None)) :
        l \in SeqsUpTo(DirLevel1Core \cup {Shorthand(Src), Shorthand(Sub)}, MaxSubdirs) \ {<<>>}}
DirSources == DirLeaves \cup DirLevel1 \cup DirLevel2

InitDirs ==
    /\ arg \in {Root, DirOf(<<"b">>)} \X DirSources
    /\ ret = None
    /\ manifests = <<>>
    /\ unreadable = {}
    /\ files = {}
    /\ calls = <<>>
    /\ pc = "pure"
    /\ build = {}
    /\ cur = None
    /\ collected = {}
    /\ listed = {}
    /\ diagnostics = {}

\* get_source_dirs is applied to the arguments
Resolve ==
    /\ pc = "pure"
    /\ ret = None
    /\ ret' = Some(get_source_dirs(arg[1], arg[2]))
    /\ UNCHANGED <<manifests, unreadable, files, calls, pc, build, cur, collected,
                   listed, diagnostics, arg>>

NextDirs == Resolve

SpecDirs == InitDirs /\ [][NextDirs]_vars

(***************************************************************************)
(* The naming rules alone: the namespace match of build_package applied to  *)
(* a manifest, and namespace_from_package_name applied to a name and then   *)
(* to its own results                                                       *)
(***************************************************************************)
MaxNameLen == 4        \* longest generated package name, in characters
MaxApplications == 3   \* most successive applications of namespace_from_package_name

NameChars == {"a", "b", "A", "B", "@", "/", "-", "_"}
PackageNames == SeqsUpTo(NameChars, MaxNameLen)

\* the names the manifests of the namespace match carry
ManifestNames ==
    {<<"a">>, <<"@", "a", "/", "b">>, <<"a", "-", "b">>, <<"A", "b", "B">>}

\* namespace strings; "true" is one token, "True" another
NamespaceStrings == SeqsUpTo({"true", "True", "a", "@"}, MaxNameLen)

NamespaceSettings ==
    {None, Some(NamespaceBool(TRUE)), Some(NamespaceBool(FALSE))}
        \cup {Some(NamespaceString(str)) : str \in NamespaceStrings}

InitNaming ==
    /\ arg \in {[fn |-> "namespace", bsconfig |-> Manifest(n, ns, DefaultSources, None)] :
                    n \in ManifestNames, ns \in NamespaceSettings}
               \cup {[fn |-> "name", name |-> n] : n \in PackageNames}
    /\ ret = None
    /\ manifests = <<>>
    /\ unreadable = {}
    /\ files = {}
    /\ calls = <<>>
    /\ pc = "naming"
    /\ build = {}
    /\ cur = None
    /\ collected = {}
    /\ listed = {}
    /\ diagnostics = {}

\* the namespace expression of the Package build_package inserts
DeriveNamespace ==
    /\ pc = "naming"
    /\ arg.fn = "namespace"
    /\ ret = None
    /\ ret' = Some(NamespaceOf(arg.bsconfig))
    /\ UNCHANGED <<manifests, unreadable, files, calls, pc, build, cur, collected,
                   listed, diagnostics, arg>>

\* namespace_from_package_name is applied to the name
ApplyNaming ==
    /\ pc = "naming"
    /\ arg.fn = "name"
    /\ ret = None
    /\ ret' = Some(<<namespace_from_package_name(arg.name)>>)
    /\ UNCHANGED <<manifests, unreadable, files, calls, pc, build, cur, collected,
                   listed, diagnostics, arg>>

\* namespace_from_package_name is applied to its last result
ReapplyNaming ==
    /\ pc = "naming"
    /\ arg.fn = "name"
    /\ ret # None
    /\ Len(Unwrap(ret)) < MaxApplications
    /\ ret' = Some(Append(Unwrap(ret),
                          namespace_from_package_name(Unwrap(ret)[Len(Unwrap(ret))])))
    /\ UNCHANGED <<manifests, unreadable, files, calls, pc, build, cur, collected,
                   listed, diagnostics, arg>>

NextNaming == DeriveNamespace \/ ApplyNaming \/ ReapplyNaming

SpecNaming == InitNaming /\ [][NextNaming]_vars

(***************************************************************************)
(* get_source_files alone: one (directory, spec) pair against a filesystem  *)
(* in which some directories cannot be listed (missing or unreadable)       *)
(***************************************************************************)
Gone == <<"gone">>
CollectDirs == SourceDirsOf(Root) \cup {Root \o Slash \o Gone}
CollectSources ==
    {PackageSource(d, subdirs, type_) :
        d \in {Src, Sub},
        subdirs \in {None, Some(SubdirsRecurse(TRUE)), Some(SubdirsRecurse(FALSE))},
        type_ \in {None, Dev, Some("lib")}}

InitCollect ==
    /\ arg \in CollectDirs \X CollectSources
    /\ ret = None
    /\ manifests = <<>>
    /\ unreadable \in {bad \in SUBSET CollectDirs :
                          /\ Cardinality(bad) <= MaxUnreadable + 1
                          /\ Root \o Slash \o Gone \in bad}
    /\ files = AllFiles
    /\ calls = <<>>
    /\ pc = "collect"
    /\ build = {}
    /\ cur = None
    /\ collected = {}
    /\ listed = {}
    /\ diagnostics = {}

\* get_source_files is applied to the pair
Collect ==
    /\ pc = "collect"
    /\ ret = None
    /\ LET r == get_source_files(arg[1], arg[2])
       IN  /\ ret' = Some(r.map)
           /\ listed' = listed \cup r.listed
           /\ diagnostics' = diagnostics \cup r.diagnostics
    /\ UNCHANGED <<manifests, unreadable, files, calls, pc, build, cur, collected, arg>>

NextCollect == Collect

SpecCollect == InitCollect /\ [][NextCollect]_vars

(***************************************************************************)
(* Properties                                                               *)
(***************************************************************************)
\* the directories of the dependencies the manifest at dir declares
DeclaredAt(dir) ==
    IF bsconfig_read(ManifestFile(dir)).ok
    THEN {DirOf(x) : x \in Range(Dependencies(bsconfig_read(ManifestFile(dir)).bsconfig))}
    ELSE {}

RECURSIVE DeclaredClosure(_)
DeclaredClosure(dirs) ==
    LET next == dirs \cup UNION {DeclaredAt(d) : d \in dirs}
    IN  IF next = dirs THEN dirs ELSE DeclaredClosure(next)

\* the root and the directory of every transitively declared dependency
ReachableDirs == DeclaredClosure({Root})

\* make has a map: the deduplicated one of discovery, or the returned one
HasMap == pc \in {"enrich", "done"}

\* the calls of build_package that returned a map
Returned == {c \in DOMAIN calls : calls[c].status = "returned"}

\* some package directory was reached along two dependency paths
Diamond ==
    \E c1, c2 \in Returned :
        /\ c1 # c2
        /\ calls[c1].package_dir = calls[c2].package_dir
        /\ calls[c1].parent # calls[c2].parent

\* C1: the map make builds holds exactly one Package per package directory
\* the root reaches, however many dependency paths lead to it: no directory
\* has two entries, and none is lost to an entry of the same package name
C1_OnePackagePerDirectory ==
    HasMap =>
        /\ \A d \in ReachableDirs : Cardinality({e \in build : e.key = d}) = 1
        /\ \A e1, e2 \in build : e1.key = e2.key => e1 = e2

\* a diamond was merged, and two directories hold packages of one name
C1_Witness ==
    /\ pc = "done"
    /\ Diamond
    /\ \E e1, e2 \in build : e1.key # e2.key /\ e1.val.name = e2.val.name

\* some manifest the root transitively declares cannot be read
ManifestMissing == \E d \in ReachableDirs : ~bsconfig_read(ManifestFile(d)).ok

\* C2: when the manifest of the root or of a transitively declared
\* dependency cannot be read, make never has a map, partial or not
C2_NoMapWithoutManifest ==
    ManifestMissing => ~HasMap /\ build = {}

\* make panicked although the task of a sibling dependency had returned
C2_Witness ==
    /\ pc = "panicked"
    /\ \E c \in Returned : c # <<>>
    /\ \E c \in DOMAIN calls : c # <<>> /\ calls[c].status = "panicked"

\* the files a folder of source_folders contributes
FolderFiles(folder) ==
    IF folder[2].type_ = Dev \/ folder[1] \in unreadable THEN {}
    ELSE ListFiles(folder[1], RecurseOf(folder[2]))

\* C3: a folder that is not development-only and cannot be listed yields an
\* empty map and a diagnostic; make still returns every package, enriched,
\* with the files of every folder that can be listed
C3_ListingFailureAbsorbed ==
    /\ \A c \in collected : c.folder[1] \in unreadable => c.map = {}
    /\ unreadable # {} /\ ~ManifestMissing => pc # "panicked"
    /\ pc = "done" =>
          /\ Keys(build) = ReachableDirs
          /\ \A e \in build :
                /\ e.val.source_files # None /\ e.val.modules # None
                /\ \A folder \in e.val.source_folders :
                      /\ folder[2].type_ # Dev /\ folder[1] \in unreadable
                            => [dir |-> folder[1], dev |-> FALSE] \in diagnostics
                      /\ FolderFiles(folder) \subseteq Keys(Unwrap(e.val.source_files))

\* make returned although a folder of a package could not be listed, and
\* that package and another one still hold files
C3_Witness ==
    /\ pc = "done"
    /\ \E e1, e2 \in build :
          /\ e1.key # e2.key
          /\ \E folder \in e1.val.source_folders :
                folder[2].type_ # Dev /\ folder[1] \in unreadable
          /\ Unwrap(e1.val.source_files) # {}
          /\ Unwrap(e2.val.source_files) # {}

\* sources: {dir: src, subdirs: [{dir: sub, type: dev}]}
DevChildSources ==
    Single(Qualified(PackageSource(Src,
        Some(SubdirsQualified(<<Qualified(PackageSource(Sub, None, Dev))>>)), None)))

Under(dir, f) == IsPrefix(dir \o Slash, f)

\* the package of a manifest with DevChildSources has the two folders
\* root/src and root/src/sub, and no file below root/src/sub
DevChildSkipped ==
    \A e \in build :
        e.val.bsconfig.sources = DevChildSources =>
            /\ e.val.source_folders =
                  {<<e.key \o Slash \o Src, PackageSource(Src, None, None)>>,
                   <<e.key \o Slash \o SrcSub, PackageSource(Sub, None, Dev)>>}
            /\ e.val.source_files # None =>
                  \A f \in Keys(Unwrap(e.val.source_files)) :
                      ~Under(e.key \o Slash \o SrcSub, f)

\* C4 as stated: besides DevChildSkipped, a directory that source_folders
\* tags development-only is never handed to the lister
C4_DevDirectoryNeverRead ==
    /\ DevChildSkipped
    /\ \A e \in build : \A folder \in e.val.source_folders :
          folder[2].type_ = Dev => \A l \in listed : l[1] # folder[1]

\* C4, amended: besides DevChildSkipped, an entry of source_folders tagged
\* development-only is never handed to the lister and contributes no file;
\* its directory is read only through an entry without the tag
C4_DevEntryNeverRead ==
    /\ DevChildSkipped
    /\ \A l \in listed : \E e \in build : \E folder \in e.val.source_folders :
          folder[1] = l[1] /\ folder[2].type_ # Dev /\ RecurseOf(folder[2]) = l[2]
    /\ \A c \in collected : c.folder[2].type_ = Dev => c.map = {}
    /\ \A e \in build :
          e.val.source_files # None =>
              Keys(Unwrap(e.val.source_files))
                  = UNION {FolderFiles(folder) : folder \in e.val.source_folders}

\* make returned a package of DevChildSources whose directory src/sub can be
\* listed and holds a file, and the package has the files of src
C4_Witness ==
    /\ pc = "done"
    /\ \E e \in build :
          /\ e.val.bsconfig.sources = DevChildSources
          /\ e.key \o Slash \o SrcSub \notin unreadable
          /\ \E f \in files : Under(e.key \o Slash \o SrcSub, f)
          /\ Unwrap(e.val.source_files) # {}

\* the source spec get_source_dirs was applied to declares subdirs = true
FullRecursionArg ==
    /\ pc = "pure"
    /\ ret # None
    /\ arg[2].variant = "Qualified"
    /\ arg[2].ps.subdirs = Some(SubdirsRecurse(TRUE))

\* C5: for a source spec that declares full recursion, get_source_dirs
\* returns exactly one entry, for base/spec.dir, and the spec of that entry
\* still carries the full-recursion flag
C5_FullRecursionOneEntry ==
    FullRecursionArg =>
        /\ Cardinality(Unwrap(ret)) = 1
        /\ \A folder \in Unwrap(ret) :
              /\ folder[1] = arg[1] \o Slash \o arg[2].ps.dir
              /\ folder[2].subdirs = Some(SubdirsRecurse(TRUE))
              /\ RecurseOf(folder[2])

\* get_source_dirs returned for a development-only full-recursion spec
C5_Witness == FullRecursionArg /\ arg[2].ps.type_ = Dev

\* the source spec get_source_dirs was applied to declares an explicit list
ExplicitListArg ==
    /\ pc = "pure"
    /\ ret # None
    /\ arg[2].variant = "Qualified"
    /\ arg[2].ps.subdirs # None
    /\ Unwrap(arg[2].ps.subdirs).variant = "Qualified"

\* the sets the children of the argument resolve to, against base/spec.dir
ChildFolders ==
    [i \in DOMAIN Unwrap(arg[2].ps.subdirs).list |->
        get_source_dirs(arg[1] \o Slash \o arg[2].ps.dir, Unwrap(arg[2].ps.subdirs).list[i])]

RECURSIVE SumCard(_)
SumCard(sets) == IF sets = <<>> THEN 0 ELSE Cardinality(Head(sets)) + SumCard(Tail(sets))

\* C6 as stated: the number of entries is 1 plus the sum of the numbers of
\* entries the children resolve to
C6_CountIsOnePlusSum ==
    ExplicitListArg => Cardinality(Unwrap(ret)) = 1 + SumCard(ChildFolders)

\* C6, amended: the entries are the one of the spec itself and the union of
\* the children's; their number is 1 plus the number of distinct entries of
\* the children, which is 1 plus the sum exactly when no two children
\* resolve to a common entry
C6_CountIsOnePlusUnion ==
    ExplicitListArg =>
        LET kids == UNION Range(ChildFolders)
            own == <<arg[1] \o Slash \o arg[2].ps.dir,
                     PackageSource(arg[2].ps.dir, None, arg[2].ps.type_)>>
        IN  /\ Unwrap(ret) = {own} \cup kids
            /\ own \notin kids
            /\ Cardinality(Unwrap(ret)) = 1 + Cardinality(kids)
            /\ Cardinality(Unwrap(ret)) <= 1 + SumCard(ChildFolders)
            /\ Cardinality(Unwrap(ret)) = 1 + SumCard(ChildFolders)
                  <=> \A i, j \in DOMAIN ChildFolders :
                          i # j => ChildFolders[i] \cap ChildFolders[j] = {}

\* get_source_dirs returned for a list of two children that resolve to a
\* common entry, one of them with children of its own
C6_Witness ==
    /\ ExplicitListArg
    /\ \E i, j \in DOMAIN ChildFolders :
          /\ i # j
          /\ ChildFolders[i] \cap ChildFolders[j] # {}
          /\ Cardinality(ChildFolders[i]) > 1

\* C7: every package of the returned graph whose namespace is set has the
\* namespace among its modules, whatever files were collected
C7_NamespaceIsModule ==
    \A e \in build :
        e.val.modules # None /\ e.val.namespace # None =>
            Unwrap(e.val.namespace) \in Unwrap(e.val.modules)

\* make returned a package with a namespace and no file at all
C7_Witness ==
    /\ pc = "done"
    /\ \E e \in build :
          /\ e.val.namespace # None
          /\ e.val.source_files = Some({})
          /\ e.val.source_folders # {}

\* every Package record of the run: those of make's map and those of the
\* maps the calls of build_package hold
AllPackages ==
    {e.val : e \in build} \cup UNION {{e.val : e \in calls[c].children} : c \in DOMAIN calls}

\* C8: in every state of a run, each Package has source_files and modules
\* both absent or both present
C8_FilesAndModulesTogether ==
    \A package \in AllPackages :
        (package.source_files = None) <=> (package.modules = None)

\* the enrichment has filled one package and not yet another
C8_Witness ==
    /\ pc = "enrich"
    /\ \E e1, e2 \in build :
          /\ e1.val.source_files # None /\ e1.val.modules # None
          /\ e2.val.source_files = None /\ e2.val.modules = None

\* the Package of directory dir as the manifests and the filesystem alone
\* determine it, the parent left out
ExpectedPackage(dir) ==
    LET bsconfig == manifests[ManifestFile(dir)]
        folders == SourceFolders(bsconfig, dir)
        map == {[key |-> f, val |-> Metadata(f)] :
                    f \in UNION {FolderFiles(folder) : folder \in folders}}
    IN  [name |-> bsconfig.name,
         bsconfig |-> bsconfig,
         source_folders |-> folders,
         source_files |-> Some(map),
         namespace |-> NamespaceOf(bsconfig),
         modules |-> Some(Modules(map, NamespaceOf(bsconfig)))]

WithoutParent(package) == [f \in DOMAIN package \ {"parent"} |-> package[f]]

\* C9: the graph make returns is, but for the parent of each package, the
\* one the manifests and the filesystem determine, in whatever order the
\* tasks of the dependencies and of the folders ran and completed
C9_GraphIndependentOfSchedule ==
    pc = "done" =>
        {[key |-> e.key, val |-> WithoutParent(e.val)] : e \in build}
            = {[key |-> d, val |-> ExpectedPackage(d)] : d \in ReachableDirs}

\* make returned the graph of a diamond, whose tasks ran in some order
C9_Witness ==
    /\ pc = "done"
    /\ Diamond

\* the calls of build_package that computed their package directory
Started == {c \in DOMAIN calls : calls[c].package_dir # None}

\* C10 as stated: the package of a dependency is looked up, and recorded,
\* under the node_modules of the package that declares it
C10_DependencyBelowDeclarer ==
    \A c \in Started \ {<<>>} :
        /\ calls[c].package_name = calls[ParentId(c)].deps[c[Len(c)]]
        /\ calls[c].parent = calls[ParentId(c)].package_dir
        /\ Unwrap(calls[c].package_dir)
              = Unwrap(calls[c].parent) \o NodeModules \o calls[c].package_name

\* C10, amended: the package of a dependency X is looked up under the
\* node_modules of the project root, whichever package declares X, its
\* manifest is read there and it is recorded under that directory
C10_DependencyBelowRoot ==
    \A c \in Started \ {<<>>} :
        /\ calls[c].package_name = calls[ParentId(c)].deps[c[Len(c)]]
        /\ calls[c].parent = calls[ParentId(c)].package_dir
        /\ Unwrap(calls[c].package_dir) = Root \o NodeModules \o calls[c].package_name
        /\ calls[c].status = "panicked" /\ calls[c].deps = <<>> /\ calls[c].children = {}
              => ~bsconfig_read(ManifestFile(Unwrap(calls[c].package_dir))).ok
        /\ calls[c].status \in {"running", "returned"} =>
              /\ Unwrap(calls[c].package_dir) \in Keys(calls[c].children)
              /\ Get(calls[c].children, Unwrap(calls[c].package_dir)).bsconfig
                    = manifests[ManifestFile(Unwrap(calls[c].package_dir))]

\* the dependency of a dependency was built and returned
C10_Witness ==
    \E c \in Returned :
        /\ Len(c) = 2
        /\ Unwrap(calls[c].parent) # Root

\* C11: the namespace of a package follows the manifest's setting: no
\* setting or the boolean false give none, the boolean true gives the name
\* derived from the package name, the string "true" gives exactly what the
\* boolean true gives, and any other string is the namespace itself
C11_NamespaceFollowsSetting ==
    pc = "naming" /\ arg.fn = "namespace" /\ ret # None =>
        LET setting == arg.bsconfig.namespace
            derived == Some(namespace_from_package_name(arg.bsconfig.name))
            namespace == Unwrap(ret)
        IN  /\ setting = None => namespace = None
            /\ setting = Some(NamespaceBool(FALSE)) => namespace = None
            /\ setting = Some(NamespaceBool(TRUE)) => namespace = derived
            /\ setting = Some(NamespaceString(<<"true">>)) => namespace = derived
            /\ \A str \in NamespaceStrings \ {<<"true">>} :
                  setting = Some(NamespaceString(str)) => namespace = Some(str)

\* the string "true" on a scoped name gave the derived name
C11_Witness ==
    /\ pc = "naming" /\ arg.fn = "namespace"
    /\ arg.bsconfig.namespace = Some(NamespaceString(<<"true">>))
    /\ arg.bsconfig.name = <<"@", "a", "/", "b">>
    /\ ret = Some(Some(<<"A", "B">>))

\* the successive results of namespace_from_package_name on a name
Derivations == IF pc = "naming" /\ arg.fn = "name" /\ ret # None THEN Unwrap(ret) ELSE <<>>

\* two capital letters side by side
AdjacentCapitals(s) ==
    \E i \in 1..(Len(s) - 1) : s[i] \in UpperLetters /\ s[i + 1] \in UpperLetters

\* C12, as stated: every package name maps to a non-empty identifier
\* without "@" and without "/", and the function applied to its own output
\* returns that output unchanged
C12_NonEmptyIdempotent ==
    /\ Len(Derivations) >= 1 =>
          /\ Derivations[1] # <<>>
          /\ \A i \in DOMAIN Derivations[1] : Derivations[1][i] \notin {"@", "/"}
    /\ Len(Derivations) >= 2 => Derivations[2] = Derivations[1]

\* C12, amended: every package name maps to an identifier without "@",
\* "/" and word delimiters, which is empty exactly when the name holds
\* nothing but "@", "/" and delimiters; the function applied to its own
\* output returns it unchanged when the output has no two capitals side by
\* side, and in every case the second and the third result are equal
C12_IdentifierStableFromSecond ==
    /\ Len(Derivations) >= 1 =>
          /\ \A i \in DOMAIN Derivations[1] :
                Derivations[1][i] \notin {"@", "/"} \cup Delimiters
          /\ Derivations[1] = <<>>
                <=> \A i \in DOMAIN arg.name : arg.name[i] \in {"@", "/"} \cup Delimiters
    /\ Len(Derivations) >= 2 /\ ~AdjacentCapitals(Derivations[1])
          => Derivations[2] = Derivations[1]
    /\ Len(Derivations) >= 3 => Derivations[3] = Derivations[2]

\* a scoped name of one-letter words: its identifier changed when derived
\* again, and stayed from then on
C12_Witness ==
    /\ pc = "naming" /\ arg.fn = "name"
    /\ arg.name = <<"@", "a", "/", "b">>
    /\ ret = Some(<<<<"A", "B">>, <<"A", "b">>, <<"A", "b">>>>)

\* the calls of build_package that inserted a Package for the directory dir
Creations(dir) ==
    {c \in DOMAIN calls : calls[c].package_dir = Some(dir) /\ calls[c].children # {}}

\* a Package as build_package leaves it
Unenriched(package) == [package EXCEPT !.source_files = None, !.modules = None]

\* a step of the life of the Package records: a call of build_package
\* inserts its own record with source_files and modules unset, and only
\* during discovery; once make holds the map, the keys stay, a record
\* changes only in source_files and modules, both are set in the one step
\* that changes it, and a record that has them is not changed again
LifecycleStep ==
    /\ \A c \in DOMAIN calls' :
          /\ (c \notin DOMAIN calls \/ calls[c].children = {}) /\ calls'[c].children # {}
                => /\ pc = "discover"
                   /\ \E e \in calls'[c].children :
                         /\ calls'[c].children = {e}
                         /\ Some(e.key) = calls'[c].package_dir
                         /\ e.val.source_files = None /\ e.val.modules = None
          /\ \A e \in calls'[c].children : ~Visited(e.val)
    /\ pc \in {"enrich", "done"} =>
          /\ Keys(build') = Keys(build)
          /\ calls' = calls
          /\ \A e \in build : \A e2 \in build' :
                e2.key = e.key =>
                   /\ Unenriched(e2.val) = Unenriched(e.val)
                   /\ Visited(e.val) => e2.val = e.val
                   /\ e2.val # e.val =>
                         /\ pc = "enrich"
                         /\ e2.val.source_files # None /\ e2.val.modules # None
    /\ pc' = "done" => \A e \in build' : e.val.source_files # None /\ e.val.modules # None

\* C13, as stated: the Package of each directory is created exactly once,
\* during discovery, with source_files and modules unset; it is changed
\* exactly once during enrichment, in those two fields only, and never
\* afterwards
C13_CreatedOnceEnrichedOnce ==
    [][/\ LifecycleStep
       /\ \A e \in build' : Cardinality(Creations(e.key)') = 1]_vars

\* C13, amended: a Package is created once by each call of build_package,
\* so once per dependency path that reaches its directory, during
\* discovery and with source_files and modules unset; the one record of
\* the directory that the merges keep is changed exactly once during
\* enrichment, in those two fields only, and never afterwards
C13_CreatedPerCallEnrichedOnce ==
    [][/\ LifecycleStep
       /\ \A e \in build' :
             /\ Creations(e.key)' # {}
             /\ Creations(e.key)' = {c \in DOMAIN calls' : calls'[c].package_dir = Some(e.key)}]_vars

\* make returned a graph with a package that two calls of build_package
\* had created and that was enriched
C13_Witness ==
    /\ pc = "done"
    /\ \E e \in build :
          /\ Cardinality(Creations(e.key)) = 2
          /\ e.val.source_files # None /\ e.val.modules # None

DiscoveryFinished ==
    /\ \A c \in DOMAIN calls : calls[c].status = "returned"
    /\ Keys(build) = {Unwrap(calls[c].package_dir) : c \in DOMAIN calls}
    /\ \A e1 \in build : \A e2 \in build : e1.key = e2.key => e1 = e2

\* a step of file collection: get_source_files runs only after discovery,
\* for a (directory, spec) pair of the package the loop is at and that was
\* not collected for it yet; the loop enters a package only if it was not
\* enriched yet; and a package is enriched when each of its pairs has been
\* collected, with the union of the collected maps
CollectionStep ==
    /\ (collected' # collected /\ collected' # {})
          \/ listed' # listed \/ diagnostics' # diagnostics =>
          /\ pc = "enrich" /\ DiscoveryFinished
          /\ cur # None /\ cur' = cur
          /\ ~Visited(Get(build, Unwrap(cur)))
          /\ \E folder \in Get(build, Unwrap(cur)).source_folders :
                /\ \A c \in collected : c.folder # folder
                /\ collected' = collected \cup
                      {[folder |-> folder,
                        map |-> get_source_files(folder[1], folder[2]).map]}
    /\ cur' # cur /\ cur' # None =>
          /\ pc = "enrich" /\ DiscoveryFinished
          /\ Unwrap(cur') \in Keys(build)
          /\ ~Visited(Get(build, Unwrap(cur')))
          /\ collected' = {}
    /\ pc = "enrich" /\ build' # build =>
          /\ cur # None /\ cur' = None
          /\ {c.folder : c \in collected} = Get(build, Unwrap(cur)).source_folders
          /\ Cardinality(collected) = Cardinality(Get(build, Unwrap(cur)).source_folders)
          /\ Get(build', Unwrap(cur)).source_files = Some(UNION {c.map : c \in collected})
          /\ \A e \in build : e.key # Unwrap(cur) => e \in build'
    /\ pc' = "done" /\ pc # "done" => cur = None /\ \A e \in build : Visited(e.val)

\* C15: files are collected only after discovery has finished and the
\* packages are deduplicated; get_source_files runs exactly once for each
\* (directory, spec) pair of each package of the final graph, also for a
\* package that several dependency paths reach; and the source_files of a
\* package is the union of the maps collected for its source_folders
C15_CollectedOncePerFolder == [][CollectionStep]_vars

\* make returned a graph in which a package that two dependency paths
\* reach has the files of its source folder
C15_Witness ==
    /\ pc = "done"
    /\ \E e \in build :
          /\ Cardinality({c \in DOMAIN calls : calls[c].package_dir = Some(e.key)}) = 2
          /\ e.val.source_folders # {}
          /\ \A folder \in e.val.source_folders : <<folder[1], FALSE>> \in listed
          /\ Unwrap(e.val.source_files) # {}

FullRecursion(source) == source.subdirs = Some(SubdirsRecurse(TRUE))

\* C16: the lister is asked to recurse exactly when the folder's
\* normalized spec carries full recursion; a folder that came from an
\* explicit-list spec, or whose spec has no subdirectory policy or full
\* recursion false, is listed without its nested directories, so the
\* files of a nested directory enter source_files only through an entry
\* of source_folders for that nested directory (or through a folder with
\* full recursion above it)
C16_RecurseOnlyOnFullRecursion ==
    /\ \A folder \in Folders :
          folder[2].subdirs = None \/ Unwrap(folder[2].subdirs).variant = "Recurse"
    /\ \A l \in listed :
          \E folder \in Folders :
             /\ folder[1] = l[1] /\ folder[2].type_ # Dev
             /\ l[2] = FullRecursion(folder[2])
    /\ \A c \in collected :
          ~FullRecursion(c.folder[2]) =>
             \A f \in Keys(c.map) : DirsBetween(c.folder[1], f) = {}
    /\ pc = "done" =>
          \A e \in build : \A f \in Keys(Unwrap(e.val.source_files)) :
             \E folder \in e.val.source_folders :
                /\ folder[2].type_ # Dev
                /\ IsPrefix(folder[1] \o Slash, f)
                /\ DirsBetween(folder[1], f) = {} \/ FullRecursion(folder[2])
    /\ pc = "done" =>
          \A folder \in Folders :
             folder[2].type_ # Dev => <<folder[1], FullRecursion(folder[2])>> \in listed

\* the root declared src with the explicit list [sub]: both directories
\* were listed without recursion, and the file of src/sub is in source_files
C16_Witness ==
    /\ pc = "done"
    /\ ManifestFile(Root) \in DOMAIN manifests
    /\ manifests[ManifestFile(Root)].sources
          = Single(Qualified(PackageSource(Src, Some(SubdirsQualified(<<Shorthand(Sub)>>)), None)))
    /\ <<Root \o Slash \o Src, FALSE>> \in listed
    /\ <<Root \o Slash \o SrcSub, FALSE>> \in listed
    /\ <<Root \o Slash \o Src, TRUE>> \notin listed
    /\ \E f \in Keys(Unwrap(Get(build, Root).source_files)) :
          DirsBetween(Root \o Slash \o Src, f) # {}

\* C17: only the call make issues has is_root true, and its package
\* directory is the project root; the call for a dependency, at any depth,
\* has is_root false and the package directory
\* project_root/node_modules/<declared name>, with the project root make
\* was given as project_root in every call
C17_OnlyFirstCallIsRoot ==
    \A c \in DOMAIN calls :
        /\ calls[c].is_root <=> c = <<>>
        /\ calls[c].project_root = Root
        /\ c # <<>> => calls[c].package_name = calls[ParentId(c)].deps[c[Len(c)]]
        /\ calls[c].status # "pending" =>
              calls[c].package_dir
                 = Some(IF c = <<>> THEN Root
                        ELSE Root \o NodeModules \o calls[c].package_name)

\* the call for a dependency of a dependency has computed its directory
C17_Witness ==
    \E c \in DOMAIN calls :
        /\ Len(c) = 2
        /\ ~calls[c].is_root
        /\ calls[c].parent # Some(Root)
        /\ calls[c].package_dir = Some(Root \o NodeModules \o calls[c].package_name)

\* the root manifest declares sources {dir: src, subdirs: true} and no
\* dependency, and root/src can be listed
RecursiveSrcAlone ==
    /\ DOMAIN manifests = {ManifestFile(Root)}
    /\ manifests[ManifestFile(Root)].sources
          = Single(Qualified(PackageSource(Src, Some(SubdirsRecurse(TRUE)), None)))
    /\ Dependencies(manifests[ManifestFile(Root)]) = <<>>
    /\ Root \o Slash \o Src \notin unreadable

SrcFileA == Root \o Slash \o Src \o Slash \o <<"a", ".res">>
SrcFileB == Root \o Slash \o Src \o Slash \o <<"b", ".res">>

\* C18: the graph make returns is fully enriched, every package has
\* source_files and modules (possibly empty); for a root manifest with
\* sources {dir: src, subdirs: true}, no dependency and the files a.res and
\* b.res under src, the graph is one package keyed by the root, its
\* source_folders is the one entry (root/src, full recursion), its
\* source_files holds both paths and its modules the module name of each
C18_ReturnedGraphEnriched ==
    pc = "done" =>
        /\ \A e \in build : e.val.source_files # None /\ e.val.modules # None
        /\ RecursiveSrcAlone =>
              /\ Keys(build) = {Root} /\ Cardinality(build) = 1
              /\ LET package == Get(build, Root)
                 IN  /\ package.source_folders
                           = {<<Root \o Slash \o Src,
                                PackageSource(Src, Some(SubdirsRecurse(TRUE)), None)>>}
                     /\ {SrcFileA, SrcFileB} \subseteq Keys(Unwrap(package.source_files))
                     /\ Keys(Unwrap(package.source_files)) \subseteq files
                     /\ \A f \in {SrcFileA, SrcFileB} :
                           file_path_to_module_name(f, package.namespace)
                              \in Unwrap(package.modules)
                     /\ package.namespace = None =>
                           {<<"A">>, <<"B">>} \subseteq Unwrap(package.modules)

\* make returned the graph of the root with the recursive src alone
C18_Witness ==
    /\ pc = "done"
    /\ RecursiveSrcAlone
    /\ Get(build, Root).namespace = None
    /\ {<<"A">>, <<"B">>} \subseteq Unwrap(Get(build, Root).modules)

\* C19: when make returns, the keys of the graph are the root directory and
\* the package directory of every dependency name declared, directly or
\* through other packages, from the root manifest: the merges lose no
\* reachable package and bring in no directory that is not reachable
C19_KeysAreReachableDirs ==
    /\ \A c \in Returned :
          Keys(calls[c].children) = DeclaredClosure({Unwrap(calls[c].package_dir)})
    /\ HasMap => Keys(build) = ReachableDirs

\* make returned a graph of several packages, one of them reached along
\* two paths, while an installed package that nothing declares is not in it
C19_Witness ==
    /\ pc = "done"
    /\ Cardinality(Keys(build)) >= 3
    /\ \E c1, c2 \in Returned : c1 # c2 /\ calls[c1].package_dir = calls[c2].package_dir
    /\ \E d \in PkgDirs \ Keys(build) : ManifestFile(d) \in DOMAIN manifests

\* the calls of build_package on the call path above the call c
Callers(c) == {SubSeq(c, 1, k) : k \in 0..(Len(c) - 1)}

\* C20: for every set of readable manifests, whatever their dependency
\* lists, the recursion of discovery completes and each package directory
\* is expanded a bounded number of times: build_package, which does the
\* same for the same directory every time, is never called for a directory
\* that one of its own callers is still expanding
C20_NoDirectoryExpandedBelowItself ==
    (\A d \in ReachableDirs : bsconfig_read(ManifestFile(d)).ok) =>
        \A c \in Started : \A a \in Callers(c) :
            calls[a].package_dir # calls[c].package_dir

====
